---- MODULE Spec2Model ----
(***************************************************************************)
(* Model of the metrics gathering service (src/main.py): the metrics      *)
(* table, the session gate, the write handlers, the dashboard render as   *)
(* the sequence of queries it issues, and the conversion funnel.          *)
(***************************************************************************)
EXTENDS Integers, Naturals, Sequences, FiniteSets, TLC

\* ------------------------------------------------------------------ bounds
MaxAppends == 2          \* POST /metrics requests in one behaviour
TicksPerDay == 2         \* clock ticks per calendar day
MaxTime == 3             \* last tick the clock reaches
MaxFirst == 10           \* WEBSITE_OPENED events in a funnel input
MaxSecond == 4           \* MENU_OPENED events in a funnel input
MaxLater == 1            \* events of each later funnel key in a funnel input

MaxDay == MaxTime \div TicksPerDay

\* ------------------------------------------------------- request inputs
None == "<None>"         \* Optional[str] = None
NoDate == -1             \* Optional[date] = None
Uids == {"WEBSITE_OPENED", "MENU_OPENED"}
Sources == {"x", "y"}
SourceFilters == {None, "", "x"}
DateParams == {NoDate} \cup (0 .. MaxDay)
Predicates == [source_filter : SourceFilters, date_from : DateParams, date_to : DateParams]
NoFilter == [source_filter |-> None, date_from |-> NoDate, date_to |-> NoDate]
\* the query strings the dashboard is requested with
DashboardQueries ==
    {NoFilter, [NoFilter EXCEPT !.source_filter = "x"], [NoFilter EXCEPT !.date_to = 0]}
MetricIds == 1 .. (MaxAppends + 1)
Usernames == {"admin", "guest"}
Passwords == {"secret", "wrong"}
ADMIN_USERNAME == "admin"
ADMIN_PASSWORD == "secret"

VARIABLES
    store,        \* rows of table "metrics"
    now,          \* datetime.utcnow(), in ticks
    issued,       \* metric_id of every POST /metrics response, in order
    session,      \* request.session.get("authenticated") == True
    auth_log,     \* last credential event of the session
    resp,         \* response of the last completed request other than a dashboard
    render,       \* the GET / request in flight: position and query results
    funnel_call   \* arguments and return value of the calculate_conversion_funnel call

vars == <<store, now, issued, session, auth_log, resp, render, funnel_call>>

\* ------------------------------------------------------------ arithmetic
RECURSIVE GCD(_, _)
GCD(a, b) == IF b = 0 THEN a ELSE GCD(b, a % b)

\* a Python number as a reduced quotient <<numerator, denominator>>
Num(n) == <<n, 1>>
ZeroDivisionError == <<1, 0>>
Raised(q) == q[2] = 0

\* a / b
TrueDiv(a, b) ==
    IF b = 0 THEN ZeroDivisionError
    ELSE <<a \div GCD(a, b), b \div GCD(a, b)>>

\* q * k
Times(q, k) == IF Raised(q) THEN q ELSE TrueDiv(q[1] * k, q[2])

RECURSIVE SumSeq(_)
SumSeq(s) == IF s = <<>> THEN 0 ELSE Head(s) + SumSeq(Tail(s))

\* ------------------------------------------------------------- the table
Ids(rows) == {r.id : r \in rows}

SetMax(S) == CHOOSE m \in S : \A x \in S : x <= m

\* id INTEGER PRIMARY KEY on SQLite, declared without sqlite_autoincrement:
\* the rowid given to a new row is one more than the largest rowid in the table
NextId(rows) == IF rows = {} THEN 1 ELSE SetMax(Ids(rows)) + 1

\* a date bound to a DateTime column is that day's midnight
Midnight(d) == d * TicksPerDay

\* the cutoff without the added day
SameDay(d) == d

\* date_to + timedelta(days=1)
NextDay(d) == d + 1

\* "if source_filter:" / "if date_from:" / "if date_to:"
Truthy(s) == s \notin {None, ""}
Given(d) == d # NoDate

\* the WHERE clause of the record list (lines 106-115)
ListFilter(r, p) ==
    /\ Truthy(p.source_filter) => r.source = p.source_filter
    /\ Given(p.date_from) => r.created_at >= Midnight(p.date_from)
    /\ Given(p.date_to) => r.created_at < Midnight(NextDay(p.date_to))

\* the per-uid statistics without the date_to clause
EventStatsFilterNoDateTo(r, p) ==
    /\ Truthy(p.source_filter) => r.source = p.source_filter
    /\ Given(p.date_from) => r.created_at >= Midnight(p.date_from)

\* the WHERE clause of the per-uid statistics (lines 126-134)
EventStatsFilter(r, p) ==
    /\ Truthy(p.source_filter) => r.source = p.source_filter
    /\ Given(p.date_from) => r.created_at >= Midnight(p.date_from)
    /\ Given(p.date_to) => r.created_at < Midnight(NextDay(p.date_to))

\* the WHERE clause of the per-source statistics (lines 145-153)
SourceStatsFilter(r, p) ==
    /\ Truthy(p.source_filter) => r.source = p.source_filter
    /\ Given(p.date_from) => r.created_at >= Midnight(p.date_from)
    /\ Given(p.date_to) => r.created_at < Midnight(NextDay(p.date_to))

\* the WHERE clause of one funnel step count (lines 197-208)
FunnelFilter(r, key, p) ==
    /\ r.uid = key
    /\ Truthy(p.source_filter) => r.source = p.source_filter
    /\ Given(p.date_from) => r.created_at >= Midnight(p.date_from)
    /\ Given(p.date_to) => r.created_at < Midnight(NextDay(p.date_to))

\* ORDER BY created_at DESC: the order of rows with equal created_at is not
\* fixed by the statement
OrderedByCreatedDesc(l) ==
    \A i \in 1 .. Len(l) - 1 : l[i].created_at >= l[i + 1].created_at

\* the orders a set of rows can be returned in
RECURSIVE SeqsOf(_)
SeqsOf(rows) ==
    IF rows = {} THEN {<<>>}
    ELSE UNION {{<<r>> \o l : l \in SeqsOf(rows \ {r})} : r \in rows}

\* every result query.order_by(created_at.desc()).all() may return
ListResults(rows, p) ==
    {l \in SeqsOf({r \in rows : ListFilter(r, p)}) : OrderedByCreatedDesc(l)}

\* GROUP BY uid with count(uid), as uid -> count over the uids present
GroupByUid(rows, p) ==
    LET m == {r \in rows : EventStatsFilter(r, p)}
    IN  [u \in {r.uid : r \in m} |-> Cardinality({r \in m : r.uid = u})]

\* GROUP BY source with count(source)
GroupBySource(rows, p) ==
    LET m == {r \in rows : SourceStatsFilter(r, p)}
    IN  [s \in {r.source : r \in m} |-> Cardinality({r \in m : r.source = s})]

\* SELECT DISTINCT source
DistinctSources(rows) == {r.source : r \in rows}

RECURSIVE SumCounts(_)
SumCounts(f) ==
    IF DOMAIN f = {} THEN 0
    ELSE LET k == CHOOSE x \in DOMAIN f : TRUE
         IN  f[k] + SumCounts([x \in DOMAIN f \ {k} |-> f[x]])

\* ------------------------------------------------------------- the funnel
funnel_steps ==
    << "WEBSITE_OPENED", "MENU_OPENED", "MENU_WHATSAPP", "MENU_TELEGRAM",
       "CHATBOT_OPENED", "CHATBOT_USER_MESSAGE", "CHATBOT_GET_PHONE" >>

NumSteps == Len(funnel_steps)

\* query.scalar() or 0 of one step
StepCount(rows, key, p) == Cardinality({r \in rows : FunnelFilter(r, key, p)})

\* the conversion without the check of the denominator
ConversionUnguarded(counts, i) == Times(TrueDiv(counts[i], counts[i - 1]), 100)

\* conversion of step i against the preceding step (lines 227-231)
Conversion(counts, i) ==
    LET prev_count == counts[i - 1]
    IN  IF prev_count > 0 THEN Times(TrueDiv(counts[i], prev_count), 100)
        ELSE Num(0)

\* the width taken against the preceding step
WidthOfPrevious(counts, i) ==
    IF counts[i - 1] > 0 THEN Times(TrueDiv(counts[i], counts[i - 1]), 100)
    ELSE Num(0)

\* width of step i against the first step (lines 234-237)
Width(counts, i) ==
    IF counts[1] > 0 THEN Times(TrueDiv(counts[i], counts[1]), 100)
    ELSE Num(0)

\* the first step with an empty bar when it counted nothing
FirstStepRatio(counts) ==
    [key |-> funnel_steps[1], count |-> counts[1], conversion |-> Num(100),
     width |-> IF counts[1] > 0 THEN Num(100) ELSE Num(0)]

\* the first step is the base (lines 222-224)
FirstStep(counts) ==
    [key |-> funnel_steps[1], count |-> counts[1], conversion |-> Num(100), width |-> Num(100)]

LaterStep(counts, i) ==
    [key |-> funnel_steps[i], count |-> counts[i],
     conversion |-> Conversion(counts, i), width |-> Width(counts, i)]

\* the second loop of calculate_conversion_funnel, over the counts of the first
FunnelResults(counts) ==
    [i \in 1 .. NumSteps |-> IF i = 1 THEN FirstStep(counts) ELSE LaterStep(counts, i)]

\* calculate_conversion_funnel run against one state of the table
calculate_conversion_funnel(rows, p) ==
    FunnelResults([i \in 1 .. NumSteps |-> StepCount(rows, funnel_steps[i], p)])

\* ------------------------------------------------------------ responses
Response(route, status, body, id) ==
    [route |-> route, status |-> status, body |-> body, metric_id |-> id]

NoResponse == Response("", 0, "", 0)

\* the GET / request: no request in flight
Idle ==
    [pc |-> "idle", pred |-> NoFilter, metrics |-> <<>>, event_stats |-> <<>>,
     source_stats |-> <<>>, all_sources |-> {}, counts |-> <<>>]

NoCall == [pred |-> NoFilter, funnel_results |-> <<>>]

\* ---------------------------------------------------------------- Init
Init ==
    /\ store = {}
    /\ now = 0
    /\ issued = <<>>
    /\ session = FALSE
    /\ auth_log = "never"
    /\ resp = NoResponse
    /\ render = Idle
    /\ funnel_call = NoCall

\* ------------------------------------------------------------ the clock
Tick ==
    /\ now < MaxTime
    /\ now' = now + 1
    /\ UNCHANGED <<store, issued, session, auth_log, resp, render, funnel_call>>

\* ------------------------------------------------------ POST /metrics
create_metric(uid, source) ==
    LET db_metric == [id |-> NextId(store), uid |-> uid, source |-> source, created_at |-> now]
    IN  /\ Len(issued) < MaxAppends
        /\ store' = store \cup {db_metric}
        /\ issued' = Append(issued, db_metric.id)
        /\ resp' = Response("POST /metrics", 200, "success", db_metric.id)
        /\ UNCHANGED <<now, session, auth_log, render, funnel_call>>

\* the delete that reports success for an id that is not there
delete_metric_silent(metric_id) ==
    /\ store' = {r \in store : r.id # metric_id}
    /\ resp' = Response("DELETE /metrics", 200, "deleted", metric_id)
    /\ UNCHANGED <<now, issued, session, auth_log, render, funnel_call>>

\* ------------------------------------------- DELETE /metrics/{metric_id}
delete_metric(metric_id) ==
    /\ IF metric_id \in Ids(store)
       THEN /\ store' = {r \in store : r.id # metric_id}
            /\ resp' = Response("DELETE /metrics", 200, "deleted", metric_id)
       ELSE /\ store' = store
            /\ resp' = Response("DELETE /metrics", 404, "Metric not found", metric_id)
    /\ UNCHANGED <<now, issued, session, auth_log, render, funnel_call>>

\* --------------------------------------------------------- the session
check_auth == session = TRUE

\* the login that compares the username alone
UsernameOnly(username, password) == username = ADMIN_USERNAME

CredentialsOk(username, password) ==
    username = ADMIN_USERNAME /\ password = ADMIN_PASSWORD

\* GET /login
login_page ==
    /\ resp' = IF check_auth THEN Response("GET /login", 302, "/", 0)
               ELSE Response("GET /login", 200, "login.html", 0)
    /\ UNCHANGED <<store, now, issued, session, auth_log, render, funnel_call>>

\* POST /login; auth_log notes what the client sent, apart from the handler's test
login(username, password) ==
    /\ IF CredentialsOk(username, password)
       THEN /\ session' = TRUE
            /\ resp' = Response("POST /login", 302, "/", 0)
       ELSE /\ session' = session
            /\ resp' = Response("POST /login", 200, "login.html error", 0)
    /\ auth_log' = IF username = "admin" /\ password = "secret" THEN "login_ok" ELSE auth_log
    /\ UNCHANGED <<store, now, issued, render, funnel_call>>

\* GET /logout
logout ==
    /\ session' = FALSE
    /\ resp' = Response("GET /logout", 302, "/login", 0)
    /\ auth_log' = "logout"
    /\ UNCHANGED <<store, now, issued, render, funnel_call>>

\* ------------------------------------------------------------- GET /
\* the authorization check and, when it passes, the record list query
read_metrics_page(p) ==
    /\ render.pc = "idle"
    /\ IF ~check_auth
       THEN /\ resp' = Response("GET /", 302, "/login", 0)
            /\ render' = render
       ELSE /\ \E l \in ListResults(store, p) :
                 render' = [Idle EXCEPT !.pc = "event_stats", !.pred = p, !.metrics = l]
            /\ resp' = resp
    /\ UNCHANGED <<store, now, issued, session, auth_log, funnel_call>>

\* the per-uid statistics query
query_event_stats ==
    /\ render.pc = "event_stats"
    /\ render' = [render EXCEPT !.pc = "source_stats",
                                !.event_stats = GroupByUid(store, render.pred)]
    /\ UNCHANGED <<store, now, issued, session, auth_log, resp, funnel_call>>

\* the per-source statistics query
query_source_stats ==
    /\ render.pc = "source_stats"
    /\ render' = [render EXCEPT !.pc = "all_sources",
                                !.source_stats = GroupBySource(store, render.pred)]
    /\ UNCHANGED <<store, now, issued, session, auth_log, resp, funnel_call>>

\* the distinct sources query
query_all_sources ==
    /\ render.pc = "all_sources"
    /\ render' = [render EXCEPT !.pc = "funnel", !.all_sources = DistinctSources(store)]
    /\ UNCHANGED <<store, now, issued, session, auth_log, resp, funnel_call>>

\* one count query of the funnel's first loop; after the last one, the second loop
query_funnel_step ==
    /\ render.pc = "funnel"
    /\ LET i == Len(render.counts) + 1
           counts == Append(render.counts, StepCount(store, funnel_steps[i], render.pred))
       IN  IF i < NumSteps
           THEN /\ render' = [render EXCEPT !.counts = counts]
                /\ funnel_call' = funnel_call
           ELSE /\ render' = [render EXCEPT !.counts = counts, !.pc = "respond"]
                /\ funnel_call' = [pred |-> render.pred, funnel_results |-> FunnelResults(counts)]
    /\ UNCHANGED <<store, now, issued, session, auth_log, resp>>

\* the template response
respond ==
    /\ render.pc = "respond"
    /\ resp' = Response("GET /", 200, "metrics.html", 0)
    /\ render' = Idle
    /\ funnel_call' = NoCall
    /\ UNCHANGED <<store, now, issued, session, auth_log>>

\* ------------------------------------------------------ specifications
Next ==
    \/ Tick
    \/ \E uid \in Uids, source \in Sources : create_metric(uid, source)
    \/ \E metric_id \in MetricIds : delete_metric(metric_id)
    \/ login_page
    \/ \E username \in Usernames, password \in Passwords : login(username, password)
    \/ logout
    \/ \E p \in DashboardQueries : read_metrics_page(p)
    \/ query_event_stats
    \/ query_source_stats
    \/ query_all_sources
    \/ query_funnel_step
    \/ respond

Spec == Init /\ [][Next]_vars

\* StoreSpec and GateSpec run parts of Next from the same Init, so each of
\* their behaviours is a behaviour of Spec; the actions they leave out do not
\* write the variables their properties read, save resp.

\* the table under its writers alone
StoreNext ==
    \/ Tick
    \/ \E uid \in Uids, source \in Sources : create_metric(uid, source)
    \/ \E metric_id \in MetricIds : delete_metric(metric_id)

StoreSpec == Init /\ [][StoreNext]_vars

\* one session's requests, with ingestion going on
GateNext ==
    \/ \E uid \in Uids, source \in Sources : create_metric(uid, source)
    \/ login_page
    \/ \E username \in Usernames, password \in Passwords : login(username, password)
    \/ logout
    \/ \E p \in DashboardQueries : read_metrics_page(p)
    \/ query_event_stats
    \/ query_source_stats
    \/ query_all_sources
    \/ query_funnel_step
    \/ respond

GateSpec == Init /\ [][GateNext]_vars

\* calculate_conversion_funnel called on a table nobody is writing to
FunnelInputs ==
    {[i \in 1 .. NumSteps |-> IF i = 1 THEN a ELSE IF i = 2 THEN b ELSE c[i]] :
        a \in 0 .. MaxFirst, b \in 0 .. MaxSecond, c \in [3 .. NumSteps -> 0 .. MaxLater]}

Before(n, i) == SumSeq([j \in 1 .. i - 1 |-> n[j]])

\* the table as an earlier run of the service left it: n[i] events of funnel
\* key i, ingested from source "x" in key order
FunnelRows(n) ==
    UNION {{[id |-> Before(n, i) + k, uid |-> funnel_steps[i], source |-> "x", created_at |-> 0] :
              k \in 1 .. n[i]} : i \in 1 .. NumSteps}

FunnelInit ==
    \E n \in FunnelInputs :
        /\ store = FunnelRows(n)
        /\ now = 0
        /\ issued = <<>>
        /\ session = FALSE
        /\ auth_log = "never"
        /\ resp = NoResponse
        /\ render = Idle
        /\ funnel_call = NoCall

FunnelCall(p) ==
    /\ funnel_call = NoCall
    /\ funnel_call' = [pred |-> p, funnel_results |-> calculate_conversion_funnel(store, p)]
    /\ UNCHANGED <<store, now, issued, session, auth_log, resp, render>>

FunnelQueries == DashboardQueries \cup {[NoFilter EXCEPT !.source_filter = "y"]}

FunnelNext == \E p \in FunnelQueries : FunnelCall(p)

FunnelSpec == FunnelInit /\ [][FunnelNext]_vars

\* ================================================================ claims
Range(l) == {l[i] : i \in DOMAIN l}

\* the predicate as the specification words it
Satisfies(r, p) ==
    /\ (p.source_filter \notin {None, ""}) => r.source = p.source_filter
    /\ (p.date_from # NoDate) => r.created_at >= p.date_from * TicksPerDay
    /\ (p.date_to # NoDate) => r.created_at < (p.date_to + 1) * TicksPerDay

\* C1: every id a POST /metrics returns is greater than every id returned by an
\* earlier POST /metrics, whatever deletes happened in between.
C1_IdsIncrease ==
    \A i, j \in DOMAIN issued : i < j => issued[i] < issued[j]

\* C2: DELETE of a stored id removes exactly that row and answers 200, and no
\* list under any predicate returns the id afterwards; DELETE of an id that is
\* not stored answers 404 "Metric not found" and leaves the table as it was.
C2_DeleteStep ==
    \A id \in MetricIds :
        delete_metric(id) =>
            IF id \in Ids(store)
            THEN /\ Cardinality(store \ store') = 1
                 /\ store' = {r \in store : r.id # id}
                 /\ resp'.status = 200
                 /\ \A p \in Predicates : \A l \in ListResults(store', p) :
                        \A k \in DOMAIN l : l[k].id # id
            ELSE /\ store' = store
                 /\ resp'.status = 404
                 /\ resp'.body = "Metric not found"

C2_Delete == [][C2_DeleteStep]_vars

\* C2 witness: a DELETE of an id that was issued and deleted before answered 404
\* while other rows are stored.
C2_Witness ==
    /\ resp.route = "DELETE /metrics"
    /\ resp.status = 404
    /\ resp.metric_id \in Range(issued)
    /\ store # {}

\* C3: the context a dashboard render responds with is computed over one set of
\* rows: the list length, the sums of both statistics and the funnel counts agree.
C3_RenderConsistent ==
    render.pc = "respond" =>
        LET total == Len(render.metrics)
        IN  /\ SumCounts(render.event_stats) = total
            /\ SumCounts(render.source_stats) = total
            /\ \A i \in 1 .. NumSteps :
                   funnel_call.funnel_results[i].count =
                       Cardinality({k \in DOMAIN render.metrics :
                                       render.metrics[k].uid = funnel_steps[i]})

\* C4: under every predicate the per-uid counts sum to the number of rows the
\* list returns.
C4_GroupSum ==
    \A p \in Predicates : \A l \in ListResults(store, p) :
        SumCounts(GroupByUid(store, p)) = Len(l)

\* C4 witness: two uids are stored and some predicate matches one row of the two.
C4_Witness ==
    /\ Cardinality({r.uid : r \in store}) = 2
    /\ \E p \in Predicates :
           /\ p.source_filter = "x" /\ p.date_to # NoDate
           /\ SumCounts(GroupByUid(store, p)) = 1

\* C5: a later step's conversion is 0 when the preceding count is 0, else
\* 100 * count[i] / count[i-1], above 100 when count[i] > count[i-1] > 0, and no
\* division by zero is raised.
C5_Conversion ==
    LET fr == funnel_call.funnel_results
    IN  \A i \in DOMAIN fr : i > 1 =>
            LET c == fr[i].count
                prev == fr[i - 1].count
                conv == fr[i].conversion
            IN  /\ ~Raised(conv)
                /\ ~Raised(fr[i].width)
                /\ prev = 0 => conv = <<0, 1>>
                /\ prev # 0 => conv[1] * prev = 100 * c * conv[2]
                /\ (c > prev /\ prev > 0) => conv[1] > 100 * conv[2]

\* C5 witness: one funnel with a step above its non-zero predecessor and a
\* non-empty step after an empty one.
C5_Witness ==
    LET fr == funnel_call.funnel_results
    IN  /\ \E i \in DOMAIN fr : i > 1 /\ fr[i].count > fr[i - 1].count /\ fr[i - 1].count > 0
        /\ \E j \in DOMAIN fr : j > 1 /\ fr[j - 1].count = 0 /\ fr[j].count > 0

\* C6: the first funnel step reports conversion 100.0 and width 100 whatever it
\* counted.
C6_FirstStep ==
    LET fr == funnel_call.funnel_results
    IN  fr # <<>> => fr[1].conversion = <<100, 1>> /\ fr[1].width = <<100, 1>>

\* C6 witness: the first step counted nothing and a later step counted something.
C6_Witness ==
    LET fr == funnel_call.funnel_results
    IN  fr # <<>> /\ fr[1].count = 0 /\ \E i \in DOMAIN fr : fr[i].count > 0

\* C7: date_to = D keeps exactly the rows created before D + 1 day, in the list,
\* in both statistics and in every funnel count; with no other clause a row of
\* the last tick of D is listed and a row of the first tick of D + 1 is not.
C7_DateTo ==
    \A p \in Predicates : (p.date_to # NoDate) =>
        LET q == [p EXCEPT !.date_to = NoDate]
            cutoff == (p.date_to + 1) * TicksPerDay
            kept == {r \in store : r.created_at < cutoff}
        IN  /\ ListResults(store, p) = ListResults(kept, q)
            /\ GroupByUid(store, p) = GroupByUid(kept, q)
            /\ GroupBySource(store, p) = GroupBySource(kept, q)
            /\ \A i \in 1 .. NumSteps :
                   StepCount(store, funnel_steps[i], p) = StepCount(kept, funnel_steps[i], q)
            /\ (p.source_filter = None /\ p.date_from = NoDate) =>
                   \A r \in store : \A l \in ListResults(store, p) :
                       /\ r.created_at = cutoff - 1 => r \in Range(l)
                       /\ r.created_at = cutoff => r \notin Range(l)

\* C7 witness: a row of the last tick of day 0 and a row of the first tick of
\* day 1 are both stored.
C7_Witness ==
    /\ \E r \in store : r.created_at = TicksPerDay - 1
    /\ \E r \in store : r.created_at = TicksPerDay

\* C8: every list result holds exactly the rows satisfying the predicate, by
\* created_at descending, rows of equal created_at by id descending.
C8_ListOrder ==
    \A p \in Predicates : \A l \in ListResults(store, p) :
        /\ Range(l) = {r \in store : Satisfies(r, p)}
        /\ \A i \in 1 .. Len(l) - 1 :
               \/ l[i].created_at > l[i + 1].created_at
               \/ l[i].created_at = l[i + 1].created_at /\ l[i].id > l[i + 1].id

\* C9: GET / goes on to the dashboard queries exactly when the session's last
\* credential event is a POST /login with the admin username and password, and
\* otherwise answers the redirect to /login with nothing queried; POST /metrics
\* is open in every state of the session.
C9_GateStep ==
    \A p \in DashboardQueries :
        read_metrics_page(p) =>
            IF auth_log = "login_ok"
            THEN render'.pc = "event_stats" /\ render'.metrics \in ListResults(store, p)
            ELSE render' = Idle /\ resp' = Response("GET /", 302, "/login", 0)

C9_IngestionOpen ==
    Len(issued) < MaxAppends =>
        \A uid \in Uids, source \in Sources : ENABLED create_metric(uid, source)

C9_Gate == [][C9_GateStep]_vars /\ []C9_IngestionOpen

\* C9 witness: after a login and a logout, with rows stored, GET / answered the
\* redirect.
C9_Witness ==
    /\ auth_log = "logout"
    /\ resp = Response("GET /", 302, "/login", 0)
    /\ store # {}

\* C10: a later step's width is 0 when the first count is 0, else
\* 100 * count[i] / count[0]; 10 WEBSITE_OPENED with 4 MENU_OPENED give step 2
\* count 4, conversion 40.0, width 40, and with no MENU_OPENED count 0,
\* conversion 0.0, width 0.
C10_Width ==
    LET fr == funnel_call.funnel_results
        opened == Cardinality({r \in store : r.uid = "WEBSITE_OPENED"})
        menu == Cardinality({r \in store : r.uid = "MENU_OPENED"})
    IN  /\ \A i \in DOMAIN fr : i > 1 =>
               LET w == fr[i].width
               IN  /\ fr[1].count = 0 => w = <<0, 1>>
                   /\ fr[1].count # 0 => w[2] > 0 /\ w[1] * fr[1].count = 100 * fr[i].count * w[2]
        /\ (fr # <<>> /\ funnel_call.pred = NoFilter /\ opened = 10) =>
               /\ fr[1].count = 10 /\ fr[1].conversion = <<100, 1>> /\ fr[1].width = <<100, 1>>
               /\ menu = 4 => fr[2].count = 4 /\ fr[2].conversion = <<40, 1>> /\ fr[2].width = <<40, 1>>
               /\ menu = 0 => fr[2].count = 0 /\ fr[2].conversion = <<0, 1>> /\ fr[2].width = <<0, 1>>

\* C10 witness: the funnel of 10 WEBSITE_OPENED and 4 MENU_OPENED events.
C10_Witness ==
    LET fr == funnel_call.funnel_results
    IN  /\ fr # <<>>
        /\ funnel_call.pred = NoFilter
        /\ fr[1].count = 10
        /\ fr[2].count = 4
        /\ fr[2].width = <<40, 1>>

====
